---- MODULE Spec2Model ----
(***************************************************************************)
(* Model of emotions_agent.py: the process entry (main), the process-wide  *)
(* camera handle (cap, initialize_camera) and the per-request generator    *)
(* generate_frames behind the /video_feed route.                           *)
(*                                                                         *)
(* The camera device, DeepFace.analyze and cv2.imencode are collaborators  *)
(* whose outcomes are chosen nondeterministically: the device is either    *)
(* available or not (variable camera), an analysis returns one of a few    *)
(* detection lists or raises, an encoding succeeds or fails.               *)
(***************************************************************************)
EXTENDS Integers, Sequences, FiniteSets, TLC

(***************************************************************************)
(* Bounds of the model.                                                    *)
(***************************************************************************)
\* frames the camera delivers in one run of the model
MaxReads == 3
\* the same, in the runs with two viewers at a time
ConcReads == 2
\* FRAME_SKIP is drawn from 1..MaxSkip
MaxSkip == 2
\* /video_feed requests made in one run of the model
NumStreams == 2

Streams == 1..NumStreams

(***************************************************************************)
(* Program constants.                                                      *)
(***************************************************************************)
\* time.sleep(1) after a re-initialisation attempt
REINIT_DELAY == 1
\* cv2.rectangle(..., 2) and cv2.putText(..., thickness)
thickness == 2
\* thickness argument of the filled label background
FILLED == -1
\* offsets of the label background and of the text baseline above the box
LABEL_PAD == 10
LABEL_GAP == 5

None == <<>>
Some(v) == <<v>>

(***************************************************************************)
(* Text.  A string is a sequence of one-character strings, so that         *)
(* str.capitalize and the f-string are computed character by character.    *)
(***************************************************************************)
Lowers == <<"a", "d", "e", "h", "p", "s", "y">>
Uppers == <<"A", "D", "E", "H", "P", "S", "Y">>

IndexIn(c, t) == IF \E i \in 1..Len(t) : t[i] = c
                 THEN CHOOSE i \in 1..Len(t) : t[i] = c
                 ELSE 0

upper(c) == IF IndexIn(c, Lowers) > 0 THEN Uppers[IndexIn(c, Lowers)] ELSE c
lower(c) == IF IndexIn(c, Uppers) > 0 THEN Lowers[IndexIn(c, Uppers)] ELSE c

\* str.capitalize(): first character upper-cased, the rest lower-cased
capitalize(str) == [i \in 1..Len(str) |-> IF i = 1 THEN upper(str[i]) ELSE lower(str[i])]

\* f"Emotion: {emotion}"
EmotionText(emotion) == <<"E", "m", "o", "t", "i", "o", "n", ":", " ">> \o emotion

\* cv2.getTextSize(text, font, font_scale, thickness): the font metrics are
\* the library's; here every character is 13 wide and a line is 16 high
getTextSize(text) == <<Len(text) * 13, 16>>

(***************************************************************************)
(* Detections, as DeepFace.analyze returns them: a list of dicts.  A key   *)
(* that dict.get does not find is None.                                    *)
(***************************************************************************)
happy == <<"h", "a", "p", "p", "y">>
SAD == <<"S", "A", "D">>

Region1 == [x |-> 10, y |-> 10, w |-> 50, h |-> 50]
Region2 == [x |-> 80, y |-> 40, w |-> 30, h |-> 35]

FaceHappy == [region |-> Some(Region1), dominant_emotion |-> Some(happy)]
FaceSad == [region |-> Some(Region2), dominant_emotion |-> Some(SAD)]
FaceNoRegion == [region |-> None, dominant_emotion |-> Some(happy)]
FaceNoEmotion == [region |-> Some(Region1), dominant_emotion |-> None]
FaceEmptyEmotion == [region |-> Some(Region2), dominant_emotion |-> Some(<<>>)]

\* the lists an analysis may return
DetectionSets ==
    { <<>>,
      <<FaceNoRegion, FaceSad>>,
      <<FaceHappy, FaceEmptyEmotion, FaceNoEmotion, FaceSad>> }

\* the same, in the runs with two viewers at a time
ConcDetectionSets == { <<>>, <<FaceNoRegion, FaceSad>> }

(***************************************************************************)
(* Python truthiness of the two values tested on line 88.                  *)
(***************************************************************************)
\* not region: None (an absent key)
NotRegion(region) == region = None
\* not emotion_raw: None or the empty string
NotEmotion(emotion_raw) == emotion_raw = None \/ emotion_raw[1] = <<>>

(***************************************************************************)
(* Frames and drawing.                                                     *)
(***************************************************************************)
\* the image cap.read() returns for the camera's n-th frame
RawFrame(n) == [id |-> n, mirrored |-> FALSE, draws |-> <<>>]

\* cv2.flip(frame, 1)
flip(frame) == [frame EXCEPT !.mirrored = ~frame.mirrored]

DrawRect(p1, p2, th) == [op |-> "rectangle", p1 |-> p1, p2 |-> p2, thickness |-> th, text |-> <<>>]
DrawText(text, org, th) == [op |-> "putText", p1 |-> org, p2 |-> org, thickness |-> th, text |-> text]

\* lines 91-104: what one face with a region and an emotion draws
DrawFace(face_data) ==
    LET region == face_data.region[1]
        x == region.x
        y == region.y
        w == region.w
        h == region.h
        emotion == capitalize(face_data.dominant_emotion[1])
        text == EmotionText(emotion)
        text_w == getTextSize(text)[1]
        text_h == getTextSize(text)[2]
    IN  << DrawRect(<<x, y>>, <<x + w, y + h>>, thickness),
           DrawRect(<<x, y - text_h - LABEL_PAD>>, <<x + text_w, y - LABEL_GAP>>, FILLED),
           DrawText(text, <<x, y - LABEL_PAD>>, thickness) >>

\* lines 83-104: the loop over last_detected_faces
RECURSIVE DrawFacesStopAtInvalid(_)
DrawFacesStopAtInvalid(faces) ==
    IF faces = <<>> THEN <<>>
    ELSE IF NotRegion(Head(faces).region) \/ NotEmotion(Head(faces).dominant_emotion)
         THEN <<>>
         ELSE DrawFace(Head(faces)) \o DrawFacesStopAtInvalid(Tail(faces))

RECURSIVE DrawFaces(_)
DrawFaces(faces) ==
    IF faces = <<>> THEN <<>>
    ELSE IF NotRegion(Head(faces).region) \/ NotEmotion(Head(faces).dominant_emotion)
         THEN DrawFaces(Tail(faces))
         ELSE DrawFace(Head(faces)) \o DrawFaces(Tail(faces))

Render(frame, faces) == [frame EXCEPT !.draws = frame.draws \o DrawFaces(faces)]

(***************************************************************************)
(* Encoding and the multipart part.  Bytes are a sequence of tokens: a     *)
(* literal piece of text, or the compressed image of a frame.              *)
(***************************************************************************)
Lit(s) == [lit |-> s, img |-> None]
Img(frame) == [lit |-> "", img |-> Some(frame)]

CRLF == Lit("\r\n")

\* cv2.imencode('.jpg', frame)[1].tobytes(): a JPEG is SOI, data, EOI
imencode(frame) == <<Lit("FFD8"), Img(frame), Lit("FFD9")>>

\* boundary parameter of the Response mimetype
boundary == "frame"

\* lines 118-119
PartNoTrailer(frame_bytes) ==
    <<Lit("--" \o boundary), CRLF, Lit("Content-Type: image/jpeg"), CRLF, CRLF>> \o frame_bytes
Part(frame_bytes) ==
    <<Lit("--" \o boundary), CRLF, Lit("Content-Type: image/jpeg"), CRLF, CRLF>>
        \o frame_bytes \o <<CRLF>>

(***************************************************************************)
(* State.                                                                  *)
(***************************************************************************)
VARIABLES
    FRAME_SKIP,           \* configuration, fixed at startup
    maxActive,            \* how many generators the server runs at a time
    camera,               \* the device: "ok" (opens and reads) or "down"
    nextFrame,            \* number of frames the device has delivered
    cap,                  \* the global handle: "None" or "open"
    handles,              \* VideoCapture objects that hold the device
    made,                 \* per caller: the object a constructor call has
                          \* returned and line 28 has not stored yet
    mainPc,               \* main(): "start", "check", "serving", "exited"
    pc,                   \* per stream: position of generate_frames
    frame_count,          \* per stream: the local frame_count
    last_detected_faces,  \* per stream: the local last_detected_faces
    frame,                \* per stream: the local frame (None or Some(image))
    buffer,               \* per stream: bytes of the last encoding (None or Some)
    out,                  \* per stream: the bytes yielded so far
    hist                  \* per stream: what has happened (observation only)

vars == <<FRAME_SKIP, maxActive, camera, nextFrame, cap, handles, made, mainPc, pc,
          frame_count, last_detected_faces, frame, buffer, out, hist>>

config == <<FRAME_SKIP, maxActive>>
device == <<handles, made>>

\* who calls initialize_camera: main (0) and the generators
MAIN == 0
Callers == {MAIN} \cup Streams
locals == <<frame_count, last_detected_faces, frame, buffer, out>>

(***************************************************************************)
(* hist[s] records, for stream s:                                          *)
(*   nread      successful reads (the processed frames are 0..nread-1)     *)
(*   inferAt    indices of the processed frames given to DeepFace.analyze, *)
(*              in order of invocation                                     *)
(*   raisedNow  the analysis of the frame read last raised                 *)
(*   emitAt     indices of the processed frames, in order of emission      *)
(*   attempt    result of the latest analysis (None before the first one): *)
(*              Some(list) where a raise counts as the empty list          *)
(*   used       the list the drawing loop of the current frame iterated    *)
(*   dropAt     indices of the processed frames whose encoding failed      *)
(*   opens      calls of initialize_camera before the first read           *)
(*   gap        a read has failed and none has succeeded since             *)
(*   reopens    calls of initialize_camera since the gap began             *)
(*   reopenFail failed calls of initialize_camera since the gap began      *)
(*   slept      seconds slept since the gap began                          *)
(***************************************************************************)
NoHist == [nread |-> 0, inferAt |-> <<>>, raisedNow |-> FALSE, emitAt |-> <<>>,
           dropAt |-> {}, attempt |-> None, used |-> None, opens |-> 0,
           gap |-> FALSE, reopens |-> 0, reopenFail |-> 0, slept |-> 0]

\* positions at which the generator holds a frame it has read
InFlight == {"analyze", "render", "encode", "yield"}
\* positions inside the while loop
InLoop == InFlight \cup {"read", "reinit", "sleep", "suspended"}
\* positions of a generator that exists and has not ended
Active == InLoop \cup {"begin", "open", "opened"}
\* the generator has ended: by return, by an uncaught exception, by close()
Ended == {"returned", "raised", "closed"}

InitWith(n) ==
    /\ FRAME_SKIP \in 1..MaxSkip
    /\ maxActive = n
    /\ camera \in {"ok", "down"}
    /\ nextFrame = 0
    /\ cap = "None"
    /\ handles = 0
    /\ made = [c \in Callers |-> "none"]
    /\ mainPc = "start"
    /\ pc = [s \in Streams |-> "idle"]
    /\ frame_count = [s \in Streams |-> 0]
    /\ last_detected_faces = [s \in Streams |-> <<>>]
    /\ frame = [s \in Streams |-> None]
    /\ buffer = [s \in Streams |-> None]
    /\ out = [s \in Streams |-> <<>>]
    /\ hist = [s \in Streams |-> NoHist]

\* one viewer at a time, as the design assumes
Init == InitWith(1)

(***************************************************************************)
(* The device.                                                             *)
(***************************************************************************)
Unplug ==
    /\ camera = "ok"
    /\ camera' = "down"
    /\ UNCHANGED <<config, device, nextFrame, cap, mainPc, pc, locals, hist>>

Replug ==
    /\ camera = "down"
    /\ camera' = "ok"
    /\ UNCHANGED <<config, device, nextFrame, cap, mainPc, pc, locals, hist>>

(***************************************************************************)
(* initialize_camera(), lines 24-35.  Line 28 first evaluates              *)
(* cv2.VideoCapture(CAMERA_INDEX), which makes a new object and tries to   *)
(* open the device, and then stores the object in cap; the object cap held *)
(* before is never released by the program, it is freed, and lets go of    *)
(* the device, when the store drops the last reference to it.              *)
(***************************************************************************)
\* the caller is at a call of initialize_camera
AtInitCall(c) ==
    IF c = MAIN THEN mainPc = "start" ELSE pc[c] \in {"open", "reinit"}

\* line 28, right-hand side: the constructor
VideoCapture(c) ==
    /\ AtInitCall(c)
    /\ made[c] = "none"
    /\ made' = [made EXCEPT ![c] = IF camera = "ok" THEN "open" ELSE "closed"]
    /\ handles' = handles + (IF camera = "ok" THEN 1 ELSE 0)
    /\ UNCHANGED <<config, camera, nextFrame, cap, mainPc, pc, locals, hist>>

\* lines 28-35 after the constructor: the value the call leaves in cap
initialize_camera(c) == IF made[c] = "open" THEN "open" ELSE "None"

\* the store of line 28 (and of line 35) frees the object cap held
Released == IF cap = "open" THEN 1 ELSE 0

(***************************************************************************)
(* main(), lines 142-157.                                                  *)
(***************************************************************************)
MainInit ==
    /\ mainPc = "start"
    /\ made[MAIN] # "none"
    /\ cap' = initialize_camera(MAIN)
    /\ handles' = handles - Released
    /\ made' = [made EXCEPT ![MAIN] = "none"]
    /\ mainPc' = "check"
    /\ UNCHANGED <<config, camera, nextFrame, pc, locals, hist>>

MainCheckAlwaysServe ==
    /\ mainPc = "check"
    /\ mainPc' = "serving"
    /\ UNCHANGED <<config, device, camera, nextFrame, cap, pc, locals, hist>>

MainCheck ==
    /\ mainPc = "check"
    /\ mainPc' = IF cap = "None" THEN "exited" ELSE "serving"
    /\ UNCHANGED <<config, device, camera, nextFrame, cap, pc, locals, hist>>

(***************************************************************************)
(* video_feed(), lines 131-140: a request creates a generator.  Requests   *)
(* are numbered in the order they arrive.                                  *)
(***************************************************************************)
NumActive == Cardinality({t \in Streams : pc[t] \in Active})

\* the requests of a run: NumStreams viewers one after the other, or
\* maxActive viewers together
Requests == IF maxActive = 1 THEN NumStreams ELSE maxActive

video_feed(s) ==
    /\ mainPc = "serving"
    /\ pc[s] = "idle"
    /\ s <= Requests
    /\ \A t \in Streams : t < s => pc[t] # "idle"
    /\ NumActive < maxActive
    /\ pc' = [pc EXCEPT ![s] = "begin"]
    /\ UNCHANGED <<config, device, camera, nextFrame, cap, mainPc, locals, hist>>

(***************************************************************************)
(* generate_frames(), lines 43-51: entry.                                  *)
(***************************************************************************)
\* line 44 finds a handle; lines 50-51
BeginReady(s) ==
    /\ pc[s] = "begin"
    /\ cap # "None"
    /\ frame_count' = [frame_count EXCEPT ![s] = 0]
    /\ last_detected_faces' = [last_detected_faces EXCEPT ![s] = <<>>]
    /\ pc' = [pc EXCEPT ![s] = "read"]
    /\ UNCHANGED <<config, device, camera, nextFrame, cap, mainPc, frame, buffer, out, hist>>

\* line 44 finds no handle
BeginAbsent(s) ==
    /\ pc[s] = "begin"
    /\ cap = "None"
    /\ pc' = [pc EXCEPT ![s] = "open"]
    /\ UNCHANGED <<config, device, camera, nextFrame, cap, mainPc, locals, hist>>

\* line 46
Open(s) ==
    /\ pc[s] = "open"
    /\ made[s] # "none"
    /\ cap' = initialize_camera(s)
    /\ handles' = handles - Released
    /\ made' = [made EXCEPT ![s] = "none"]
    /\ hist' = [hist EXCEPT ![s].opens = @ + 1]
    /\ pc' = [pc EXCEPT ![s] = "opened"]
    /\ UNCHANGED <<config, camera, nextFrame, mainPc, locals>>

\* lines 47-48: still no handle, the generator returns
OpenedAbsentGoesOn(s) ==
    /\ pc[s] = "opened"
    /\ cap = "None"
    /\ frame_count' = [frame_count EXCEPT ![s] = 0]
    /\ last_detected_faces' = [last_detected_faces EXCEPT ![s] = <<>>]
    /\ pc' = [pc EXCEPT ![s] = "read"]
    /\ UNCHANGED <<config, device, camera, nextFrame, cap, mainPc, frame, buffer, out, hist>>

OpenedAbsent(s) ==
    /\ pc[s] = "opened"
    /\ cap = "None"
    /\ pc' = [pc EXCEPT ![s] = "returned"]
    /\ UNCHANGED <<config, device, camera, nextFrame, cap, mainPc, locals, hist>>

\* line 47 finds a handle; lines 50-51
OpenedReady(s) ==
    /\ pc[s] = "opened"
    /\ cap # "None"
    /\ frame_count' = [frame_count EXCEPT ![s] = 0]
    /\ last_detected_faces' = [last_detected_faces EXCEPT ![s] = <<>>]
    /\ pc' = [pc EXCEPT ![s] = "read"]
    /\ UNCHANGED <<config, device, camera, nextFrame, cap, mainPc, frame, buffer, out, hist>>

(***************************************************************************)
(* generate_frames(), lines 53-64: read, and the re-initialisation.        *)
(***************************************************************************)
\* the frames the camera delivers in this run
ReadLimit == IF maxActive = 1 THEN MaxReads ELSE ConcReads

\* lines 55-56, 64: a frame is read and mirrored
ReadOk(s) ==
    /\ pc[s] = "read"
    /\ cap = "open"
    /\ camera = "ok"
    /\ nextFrame < ReadLimit
    /\ frame' = [frame EXCEPT ![s] = Some(flip(RawFrame(nextFrame)))]
    /\ nextFrame' = nextFrame + 1
    /\ hist' = [hist EXCEPT ![s].nread = @ + 1, ![s].raisedNow = FALSE,
                            ![s].used = None, ![s].gap = FALSE, ![s].reopens = 0,
                            ![s].reopenFail = 0, ![s].slept = 0]
    /\ pc' = [pc EXCEPT ![s] = "analyze"]
    /\ UNCHANGED <<config, device, camera, cap, mainPc, frame_count, last_detected_faces,
                   buffer, out>>

\* lines 55-57: ret is False
ReadFailNoReinit(s) ==
    /\ pc[s] = "read"
    /\ cap = "open"
    /\ camera = "down"
    /\ frame' = [frame EXCEPT ![s] = None]
    /\ hist' = [hist EXCEPT ![s].gap = TRUE, ![s].reopens = 0,
                            ![s].reopenFail = 0, ![s].slept = 0]
    /\ pc' = [pc EXCEPT ![s] = "sleep"]
    /\ UNCHANGED <<config, device, camera, nextFrame, cap, mainPc, frame_count,
                   last_detected_faces, buffer, out>>

ReadFailCounts(s) ==
    /\ pc[s] = "read"
    /\ cap = "open"
    /\ camera = "down"
    /\ frame' = [frame EXCEPT ![s] = None]
    /\ frame_count' = [frame_count EXCEPT ![s] = @ + 1]
    /\ hist' = [hist EXCEPT ![s].gap = TRUE, ![s].reopens = 0,
                            ![s].reopenFail = 0, ![s].slept = 0]
    /\ pc' = [pc EXCEPT ![s] = "reinit"]
    /\ UNCHANGED <<config, device, camera, nextFrame, cap, mainPc,
                   last_detected_faces, buffer, out>>

ReadFail(s) ==
    /\ pc[s] = "read"
    /\ cap = "open"
    /\ camera = "down"
    /\ frame' = [frame EXCEPT ![s] = None]
    /\ hist' = [hist EXCEPT ![s].gap = TRUE, ![s].reopens = 0,
                            ![s].reopenFail = 0, ![s].slept = 0]
    /\ pc' = [pc EXCEPT ![s] = "reinit"]
    /\ UNCHANGED <<config, device, camera, nextFrame, cap, mainPc, frame_count,
                   last_detected_faces, buffer, out>>

\* line 55 with cap = None: None has no attribute read, and nothing catches
\* the AttributeError
ReadRaise(s) ==
    /\ pc[s] = "read"
    /\ cap = "None"
    /\ pc' = [pc EXCEPT ![s] = "raised"]
    /\ UNCHANGED <<config, device, camera, nextFrame, cap, mainPc, locals, hist>>

\* line 59
Reinit(s) ==
    /\ pc[s] = "reinit"
    /\ made[s] # "none"
    /\ cap' = initialize_camera(s)
    /\ handles' = handles - Released
    /\ made' = [made EXCEPT ![s] = "none"]
    /\ hist' = [hist EXCEPT ![s].reopens = @ + 1,
                            ![s].reopenFail = @ + (IF made[s] = "open" THEN 0 ELSE 1)]
    /\ pc' = [pc EXCEPT ![s] = "sleep"]
    /\ UNCHANGED <<config, camera, nextFrame, mainPc, locals>>

\* lines 60-61
Sleep(s) ==
    /\ pc[s] = "sleep"
    /\ hist' = [hist EXCEPT ![s].slept = @ + REINIT_DELAY]
    /\ pc' = [pc EXCEPT ![s] = "read"]
    /\ UNCHANGED <<config, device, camera, nextFrame, cap, mainPc, locals>>

(***************************************************************************)
(* generate_frames(), lines 67-80: the throttled analysis.                 *)
(***************************************************************************)
\* line 67
ShouldAnalyzeLate(count) == count % FRAME_SKIP = FRAME_SKIP - 1
ShouldAnalyze(count) == count % FRAME_SKIP = 0

\* the lists an analysis may return in this run
AnalysisResults == IF maxActive = 1 THEN DetectionSets ELSE ConcDetectionSets

\* lines 69-77: the analysis returns a list
AnalyzeOk(s) ==
    /\ pc[s] = "analyze"
    /\ ShouldAnalyze(frame_count[s])
    /\ \E detected_faces \in AnalysisResults :
          /\ last_detected_faces' = [last_detected_faces EXCEPT ![s] = detected_faces]
          /\ hist' = [hist EXCEPT ![s].inferAt = Append(@, hist[s].nread - 1),
                                  ![s].attempt = Some(detected_faces)]
    /\ pc' = [pc EXCEPT ![s] = "render"]
    /\ UNCHANGED <<config, device, camera, nextFrame, cap, mainPc, frame_count, frame, buffer, out>>

\* lines 78-80: the analysis raises
AnalyzeFailKeep(s) ==
    /\ pc[s] = "analyze"
    /\ ShouldAnalyze(frame_count[s])
    /\ hist' = [hist EXCEPT ![s].inferAt = Append(@, hist[s].nread - 1),
                            ![s].raisedNow = TRUE,
                            ![s].attempt = Some(<<>>)]
    /\ pc' = [pc EXCEPT ![s] = "render"]
    /\ UNCHANGED <<config, device, camera, nextFrame, cap, mainPc, locals>>

AnalyzeFail(s) ==
    /\ pc[s] = "analyze"
    /\ ShouldAnalyze(frame_count[s])
    /\ last_detected_faces' = [last_detected_faces EXCEPT ![s] = <<>>]
    /\ hist' = [hist EXCEPT ![s].inferAt = Append(@, hist[s].nread - 1),
                            ![s].raisedNow = TRUE,
                            ![s].attempt = Some(<<>>)]
    /\ pc' = [pc EXCEPT ![s] = "render"]
    /\ UNCHANGED <<config, device, camera, nextFrame, cap, mainPc, frame_count, frame, buffer, out>>

\* line 67 is false
AnalyzeSkipClear(s) ==
    /\ pc[s] = "analyze"
    /\ ~ShouldAnalyze(frame_count[s])
    /\ last_detected_faces' = [last_detected_faces EXCEPT ![s] = <<>>]
    /\ pc' = [pc EXCEPT ![s] = "render"]
    /\ UNCHANGED <<config, device, camera, nextFrame, cap, mainPc, frame_count, frame, buffer,
                   out, hist>>

AnalyzeSkip(s) ==
    /\ pc[s] = "analyze"
    /\ ~ShouldAnalyze(frame_count[s])
    /\ pc' = [pc EXCEPT ![s] = "render"]
    /\ UNCHANGED <<config, device, camera, nextFrame, cap, mainPc, locals, hist>>

(***************************************************************************)
(* generate_frames(), lines 83-106: the overlay, then frame_count += 1.    *)
(***************************************************************************)
DrawSharedCount(s) ==
    /\ pc[s] = "render"
    /\ frame' = [frame EXCEPT ![s] = Some(Render(frame[s][1], last_detected_faces[s]))]
    /\ frame_count' = [t \in Streams |-> frame_count[t] + 1]
    /\ hist' = [hist EXCEPT ![s].used = Some(last_detected_faces[s])]
    /\ pc' = [pc EXCEPT ![s] = "encode"]
    /\ UNCHANGED <<config, device, camera, nextFrame, cap, mainPc, last_detected_faces,
                   buffer, out>>

Draw(s) ==
    /\ pc[s] = "render"
    /\ frame' = [frame EXCEPT ![s] = Some(Render(frame[s][1], last_detected_faces[s]))]
    /\ frame_count' = [frame_count EXCEPT ![s] = @ + 1]
    /\ hist' = [hist EXCEPT ![s].used = Some(last_detected_faces[s])]
    /\ pc' = [pc EXCEPT ![s] = "encode"]
    /\ UNCHANGED <<config, device, camera, nextFrame, cap, mainPc, last_detected_faces, buffer, out>>

(***************************************************************************)
(* generate_frames(), lines 110-119: encoding and the yield.               *)
(***************************************************************************)
\* lines 110, 115
EncodeOkKeepsFirst(s) ==
    /\ pc[s] = "encode"
    /\ buffer' = [buffer EXCEPT ![s] = IF @ = None THEN Some(imencode(frame[s][1])) ELSE @]
    /\ pc' = [pc EXCEPT ![s] = "yield"]
    /\ UNCHANGED <<config, device, camera, nextFrame, cap, mainPc, frame_count,
                   last_detected_faces, frame, out, hist>>

EncodeOk(s) ==
    /\ pc[s] = "encode"
    /\ buffer' = [buffer EXCEPT ![s] = Some(imencode(frame[s][1]))]
    /\ pc' = [pc EXCEPT ![s] = "yield"]
    /\ UNCHANGED <<config, device, camera, nextFrame, cap, mainPc, frame_count,
                   last_detected_faces, frame, out, hist>>

\* lines 110-112: ret is False
EncodeFailStop(s) ==
    /\ pc[s] = "encode"
    /\ buffer' = [buffer EXCEPT ![s] = None]
    /\ hist' = [hist EXCEPT ![s].dropAt = @ \cup {hist[s].nread - 1}]
    /\ pc' = [pc EXCEPT ![s] = "returned"]
    /\ UNCHANGED <<config, device, camera, nextFrame, cap, mainPc, frame_count,
                   last_detected_faces, frame, out>>

EncodeFailUncounts(s) ==
    /\ pc[s] = "encode"
    /\ buffer' = [buffer EXCEPT ![s] = None]
    /\ frame_count' = [frame_count EXCEPT ![s] = @ - 1]
    /\ hist' = [hist EXCEPT ![s].dropAt = @ \cup {hist[s].nread - 1}]
    /\ pc' = [pc EXCEPT ![s] = "read"]
    /\ UNCHANGED <<config, device, camera, nextFrame, cap, mainPc,
                   last_detected_faces, frame, out>>

EncodeFail(s) ==
    /\ pc[s] = "encode"
    /\ buffer' = [buffer EXCEPT ![s] = None]
    /\ hist' = [hist EXCEPT ![s].dropAt = @ \cup {hist[s].nread - 1}]
    /\ pc' = [pc EXCEPT ![s] = "read"]
    /\ UNCHANGED <<config, device, camera, nextFrame, cap, mainPc, frame_count,
                   last_detected_faces, frame, out>>

\* lines 118-119: the part goes to the client and the generator is suspended
YieldNoTrailer(s) ==
    /\ pc[s] = "yield"
    /\ out' = [out EXCEPT ![s] = @ \o PartNoTrailer(buffer[s][1])]
    /\ hist' = [hist EXCEPT ![s].emitAt = Append(@, hist[s].nread - 1)]
    /\ pc' = [pc EXCEPT ![s] = "suspended"]
    /\ UNCHANGED <<config, device, camera, nextFrame, cap, mainPc, frame_count,
                   last_detected_faces, frame, buffer>>

Yield(s) ==
    /\ pc[s] = "yield"
    /\ out' = [out EXCEPT ![s] = @ \o Part(buffer[s][1])]
    /\ hist' = [hist EXCEPT ![s].emitAt = Append(@, hist[s].nread - 1)]
    /\ pc' = [pc EXCEPT ![s] = "suspended"]
    /\ UNCHANGED <<config, device, camera, nextFrame, cap, mainPc, frame_count,
                   last_detected_faces, frame, buffer>>

\* the server asks for the next part: the loop goes on at line 53
Resume(s) ==
    /\ pc[s] = "suspended"
    /\ pc' = [pc EXCEPT ![s] = "read"]
    /\ UNCHANGED <<config, device, camera, nextFrame, cap, mainPc, locals, hist>>

\* the client goes away: the server closes the suspended generator
Disconnect(s) ==
    /\ pc[s] = "suspended"
    /\ pc' = [pc EXCEPT ![s] = "closed"]
    /\ UNCHANGED <<config, device, camera, nextFrame, cap, mainPc, locals, hist>>

(***************************************************************************)
(* The specifications.                                                     *)
(***************************************************************************)
\* the steps generate_frames takes on its own
Step(s) ==
    \/ BeginReady(s) \/ BeginAbsent(s) \/ Open(s) \/ OpenedAbsent(s) \/ OpenedReady(s)
    \/ VideoCapture(s)
    \/ ReadOk(s) \/ ReadFail(s) \/ ReadRaise(s) \/ Reinit(s) \/ Sleep(s)
    \/ AnalyzeOk(s) \/ AnalyzeFail(s) \/ AnalyzeSkip(s) \/ Draw(s)
    \/ EncodeOk(s) \/ EncodeFail(s) \/ Yield(s) \/ Resume(s)

Next ==
    \/ Unplug
    \/ Replug
    \/ \E c \in Callers : VideoCapture(c)
    \/ MainInit
    \/ MainCheck
    \/ \E s \in Streams : video_feed(s)
    \/ \E s \in Streams : BeginReady(s)
    \/ \E s \in Streams : BeginAbsent(s)
    \/ \E s \in Streams : Open(s)
    \/ \E s \in Streams : OpenedAbsent(s)
    \/ \E s \in Streams : OpenedReady(s)
    \/ \E s \in Streams : ReadOk(s)
    \/ \E s \in Streams : ReadFail(s)
    \/ \E s \in Streams : ReadRaise(s)
    \/ \E s \in Streams : Reinit(s)
    \/ \E s \in Streams : Sleep(s)
    \/ \E s \in Streams : AnalyzeOk(s)
    \/ \E s \in Streams : AnalyzeFail(s)
    \/ \E s \in Streams : AnalyzeSkip(s)
    \/ \E s \in Streams : Draw(s)
    \/ \E s \in Streams : EncodeOk(s)
    \/ \E s \in Streams : EncodeFail(s)
    \/ \E s \in Streams : Yield(s)
    \/ \E s \in Streams : Resume(s)
    \/ \E s \in Streams : Disconnect(s)

Spec == Init /\ [][Next]_vars

\* two viewers at a time: the server is started with threaded=True, so the
\* steps of two generators interleave
ConcInit == InitWith(2)

ConcSpec == ConcInit /\ [][Next]_vars

\* a generator that can take a step takes one: the server keeps iterating a
\* response whose client is connected, and main runs to its end
LiveSpec ==
    /\ Init
    /\ [][Next]_vars
    /\ WF_vars(VideoCapture(MAIN))
    /\ WF_vars(MainInit)
    /\ WF_vars(MainCheck)
    /\ \A s \in Streams : WF_vars(Step(s))

(***************************************************************************)
(* Observations used by the properties.                                    *)
(***************************************************************************)
Range(f) == {f[i] : i \in DOMAIN f}

\* the processed frames of stream s whose turn at line 67 is over
PastThrottle(s) ==
    IF pc[s] = "analyze" THEN hist[s].nread - 1 ELSE hist[s].nread

\* the frame read last has left the loop body (emitted or dropped)
IterationOver(s) == hist[s].nread > 0 /\ pc[s] \notin InFlight

\* the images carried by a byte stream, in order
ImagesOf(bytes) == SelectSeq(bytes, LAMBDA tok : tok.img # None)

(***************************************************************************)
(* C1: with FRAME_SKIP = N, the analysis is invoked on the processed       *)
(* frames 0, N, 2N, ... of a stream, once each and in that order, and on   *)
(* no other frame, whatever the reads, analyses and encodings did.         *)
(***************************************************************************)
C1_EveryNth ==
    \A s \in Streams :
        hist[s].inferAt =
            [k \in 1..((PastThrottle(s) + FRAME_SKIP - 1) \div FRAME_SKIP)
                |-> (k - 1) * FRAME_SKIP]

\* a stream with N = 2 has analysed frames 0 and 2 and skipped frame 1,
\* with a frame dropped by the encoder on the way
C1_Witness ==
    \E s \in Streams :
        /\ FRAME_SKIP = 2
        /\ hist[s].inferAt = <<0, 2>>
        /\ hist[s].dropAt # {}

(***************************************************************************)
(* C2: the list the drawing loop iterates is the result of the stream's    *)
(* latest analysis (the empty list when it raised), also on the frame of   *)
(* that analysis; the cache holds that result at every point of the loop,  *)
(* so a frame without analysis leaves it as it was.                        *)
(***************************************************************************)
C2_StickyCache ==
    \A s \in Streams :
        /\ pc[s] \in InLoop =>
              Some(last_detected_faces[s]) =
                  (IF hist[s].attempt = None THEN Some(<<>>) ELSE hist[s].attempt)
        /\ hist[s].used # None => hist[s].used = hist[s].attempt

\* a frame without analysis was drawn with the faces found one frame earlier
C2_Witness ==
    \E s \in Streams :
        /\ FRAME_SKIP = 2
        /\ hist[s].nread = 2
        /\ hist[s].used # None
        /\ hist[s].used[1] # <<>>

(***************************************************************************)
(* C3 as stated: when the analysis of a frame raises, the cache is empty   *)
(* afterwards, the generator goes on to the drawing step, the frame gets   *)
(* no overlay, and the frame is emitted.                                   *)
(***************************************************************************)
C3_FailedFrameEmitted ==
    \A s \in Streams :
        hist[s].raisedNow =>
            /\ last_detected_faces[s] = <<>>
            /\ (frame[s] # None => frame[s][1].draws = <<>>)
            /\ (IterationOver(s) => hist[s].nread - 1 \in Range(hist[s].emitAt))

(***************************************************************************)
(* C3 as amended: when the analysis of a frame raises, the cache is empty  *)
(* afterwards, the generator goes on to the drawing step, the frame gets   *)
(* no overlay and is handed to the encoder; it is emitted, without         *)
(* overlay, unless its own encoding fails.                                 *)
(***************************************************************************)
C3_FailedFrameState ==
    \A s \in Streams :
        hist[s].raisedNow =>
            /\ last_detected_faces[s] = <<>>
            /\ (frame[s] # None => frame[s][1].draws = <<>>)
            /\ (IterationOver(s) =>
                  (hist[s].nread - 1 \in Range(hist[s].emitAt))
                      # (hist[s].nread - 1 \in hist[s].dropAt))
            /\ (pc[s] = "suspended" =>
                  LET images == ImagesOf(out[s])
                  IN  /\ images # <<>>
                      /\ images[Len(images)].img[1] = frame[s][1]
                      /\ images[Len(images)].img[1].draws = <<>>)

C3_FailedFrameStep ==
    \A s \in Streams :
        /\ (pc[s] = "analyze" /\ hist'[s].raisedNow) => pc'[s] = "render"
        /\ (pc[s] = "render" /\ hist[s].raisedNow) => pc'[s] \in {"render", "encode"}

C3_FailedFrameHandled == []C3_FailedFrameState /\ [][C3_FailedFrameStep]_vars

\* the frame whose analysis raised has been yielded, after an analysis that
\* found faces
C3_Witness ==
    \E s \in Streams :
        /\ hist[s].raisedNow
        /\ pc[s] = "suspended"
        /\ hist[s].nread = 2
        /\ hist[s].emitAt = <<0, 1>>
        /\ Len(ImagesOf(out[s])[1].img[1].draws) > 0

(***************************************************************************)
(* The lifecycle of section 4.6, read off the program state: Degraded from *)
(* a failed read until an open has succeeded, Uninitialized while there is *)
(* no handle otherwise, Ready with a handle.                               *)
(***************************************************************************)
Lifecycle(s) ==
    IF hist[s].gap /\ (hist[s].reopens = 0 \/ cap = "None") THEN "Degraded"
    ELSE IF cap = "None" THEN "Uninitialized"
    ELSE "Ready"

(***************************************************************************)
(* C4: after a failed read, however many opens fail, the generator never   *)
(* ends: it neither returns nor raises.                                    *)
(***************************************************************************)
C4_NeverTerminal ==
    \A s \in Streams : hist[s].gap => pc[s] \notin {"returned", "raised"}

(***************************************************************************)
(* C5: a failed read takes the lifecycle from Ready to Degraded; exactly   *)
(* one open is attempted, followed by the delay of REINIT_DELAY seconds,   *)
(* before the next read; when that open succeeds the lifecycle is Ready;   *)
(* nothing is emitted between the failed read and the next successful      *)
(* read; and the next frame read goes on through the loop with the counter *)
(* and the cache as they were.                                             *)
(***************************************************************************)
C5_GapState ==
    \A s \in Streams :
        hist[s].gap =>
            /\ pc[s] \in {"reinit", "sleep", "read", "raised"}
            /\ (pc[s] = "reinit" => hist[s].reopens = 0 /\ Lifecycle(s) = "Degraded")
            /\ (pc[s] = "sleep" => hist[s].reopens = 1 /\ hist[s].slept = 0)
            /\ (pc[s] = "read" => hist[s].reopens = 1 /\ hist[s].slept = REINIT_DELAY)
            /\ (hist[s].reopens = 1 /\ hist[s].reopenFail = 0 =>
                    cap = "open" /\ Lifecycle(s) = "Ready")

C5_GapStep ==
    \A s \in Streams :
        /\ (pc[s] = "read" /\ pc'[s] = "reinit") =>
              Lifecycle(s) = "Ready" /\ Lifecycle(s)' = "Degraded"
        /\ hist[s].gap => out'[s] = out[s]
        /\ (hist[s].gap /\ ~hist'[s].gap) =>
              /\ pc'[s] = "analyze"
              /\ frame'[s] = Some([id |-> nextFrame, mirrored |-> TRUE, draws |-> <<>>])
              /\ frame_count'[s] = frame_count[s]
              /\ last_detected_faces'[s] = last_detected_faces[s]

C5_OneReopen == []C5_GapState /\ [][C5_GapStep]_vars

\* after a failed read that followed an emitted frame, one open has
\* succeeded, the delay has passed and the generator is about to read
C5_Witness ==
    \E s \in Streams :
        /\ hist[s].gap
        /\ pc[s] = "read"
        /\ hist[s].reopens = 1
        /\ hist[s].reopenFail = 0
        /\ cap = "open"
        /\ Len(hist[s].emitAt) > 0

(***************************************************************************)
(* C6: if the reads of a stream start failing and, after any number of     *)
(* failed opens, the camera is available again and stays so, the stream    *)
(* emits a part again.  Stated for the runs in which the camera still has  *)
(* frames to deliver and no encoding of the stream fails.                  *)
(***************************************************************************)
C6_Recovers ==
    \A s \in Streams :
        []( ( /\ hist[s].gap
              /\ []( /\ camera = "ok"
                     /\ nextFrame < MaxReads
                     /\ hist[s].dropAt = {} ) )
            => <>(~hist[s].gap /\ pc[s] = "suspended") )

(***************************************************************************)
(* C7: a failed encoding emits nothing for its frame and does not end the  *)
(* stream: the generator is back at the head of the loop, and a frame that *)
(* is read and encoded afterwards is emitted as a whole part.              *)
(***************************************************************************)
C7_DropState ==
    \A s \in Streams :
        /\ hist[s].dropAt \cap Range(hist[s].emitAt) = {}
        /\ Len(ImagesOf(out[s])) = Len(hist[s].emitAt)
        /\ pc[s] = "suspended" =>
              /\ Len(out[s]) >= 9
              /\ SubSeq(out[s], Len(out[s]) - 8, Len(out[s])) =
                    << Lit("--frame"), Lit("\r\n"), Lit("Content-Type: image/jpeg"),
                       Lit("\r\n"), Lit("\r\n"),
                       Lit("FFD8"), Img(frame[s][1]), Lit("FFD9"), Lit("\r\n") >>

C7_DropStep ==
    \A s \in Streams :
        hist'[s].dropAt # hist[s].dropAt =>
            /\ out'[s] = out[s]
            /\ pc'[s] = "read"
            /\ hist'[s].dropAt = hist[s].dropAt \cup {hist[s].nread - 1}

C7_EncodeFailureSkips == []C7_DropState /\ [][C7_DropStep]_vars

\* frame 0 was dropped by the encoder and frame 1 has been yielded
C7_Witness ==
    \E s \in Streams :
        /\ 0 \in hist[s].dropAt
        /\ hist[s].emitAt = <<1>>
        /\ pc[s] = "suspended"

(***************************************************************************)
(* C8: a detection without region, or without a non-empty emotion label,   *)
(* draws nothing and raises nothing; the other detections of the list are  *)
(* drawn, in the order of the list: per detection a box outline at its     *)
(* region, a filled label background and the label text above the box.     *)
(***************************************************************************)
Drawable(d) ==
    /\ d.region # None
    /\ d.dominant_emotion # None
    /\ d.dominant_emotion[1] # <<>>

C8_DrawState ==
    \A s \in Streams :
        (hist[s].used # None /\ frame[s] # None) =>
            LET shown == SelectSeq(hist[s].used[1], Drawable)
                draws == frame[s][1].draws
            IN  /\ Len(draws) = 3 * Len(shown)
                /\ \A k \in 1..Len(shown) :
                      LET r == shown[k].region[1]
                      IN  /\ draws[3 * k - 2].op = "rectangle"
                          /\ draws[3 * k - 2].p1 = <<r.x, r.y>>
                          /\ draws[3 * k - 2].p2 = <<r.x + r.w, r.y + r.h>>
                          /\ draws[3 * k - 1].op = "rectangle"
                          /\ draws[3 * k - 1].p1[1] = r.x
                          /\ draws[3 * k - 1].p2[2] = r.y - 5
                          /\ draws[3 * k].op = "putText"
                          /\ draws[3 * k].p1 = <<r.x, r.y - 10>>
                          /\ Len(draws[3 * k].text) =
                                9 + Len(shown[k].dominant_emotion[1])

C8_DrawStep ==
    \A s \in Streams : pc[s] = "render" => pc'[s] \in {"render", "encode"}

C8_SkipsIncomplete == []C8_DrawState /\ [][C8_DrawStep]_vars

\* a list of four detections, two of them incomplete, drew two faces
C8_Witness ==
    \E s \in Streams :
        /\ hist[s].used # None
        /\ frame[s] # None
        /\ Len(hist[s].used[1]) = 4
        /\ Len(SelectSeq(hist[s].used[1], Drawable)) = 2
        /\ Len(frame[s][1].draws) = 6

(***************************************************************************)
(* C9: when the first open fails, main returns and the server is never     *)
(* started; the server is started only while the handle is present.        *)
(***************************************************************************)
C9_ExitedState ==
    mainPc = "exited" => cap = "None" /\ \A s \in Streams : pc[s] = "idle"

C9_MainStep ==
    /\ (mainPc = "check" /\ cap = "None") => mainPc' \in {"check", "exited"}
    /\ (mainPc # "serving" /\ mainPc' = "serving") => cap = "open" /\ cap' = "open"
    /\ mainPc = "exited" => mainPc' = "exited"
    /\ (\E s \in Streams : pc[s] = "idle" /\ pc'[s] # "idle") => mainPc = "serving"

C9_NoServerWithoutCamera == []C9_ExitedState /\ [][C9_MainStep]_vars

\* main has returned after a failed open, and the camera is back
C9_Witness == mainPc = "exited" /\ camera = "ok"

(***************************************************************************)
(* C10: what a stream has emitted is a concatenation of whole parts, each  *)
(* being --frame, CRLF, Content-Type: image/jpeg, CRLF, CRLF, the encoded  *)
(* bytes of one mirrored frame of the camera, CRLF; the marker is "--"     *)
(* followed by the boundary the response announces.                        *)
(***************************************************************************)
C10_WholeParts ==
    \A s \in Streams :
        /\ Len(out[s]) % 9 = 0
        /\ \A k \in 0..((Len(out[s]) \div 9) - 1) :
              LET part == SubSeq(out[s], 9 * k + 1, 9 * k + 9)
              IN  /\ part[1] = Lit("--frame")
                  /\ part[1].lit = "--" \o boundary
                  /\ part[2] = Lit("\r\n")
                  /\ part[3] = Lit("Content-Type: image/jpeg")
                  /\ part[4] = Lit("\r\n")
                  /\ part[5] = Lit("\r\n")
                  /\ part[6] = Lit("FFD8")
                  /\ part[7].img # None
                  /\ part[7].img[1].id \in 0..(nextFrame - 1)
                  /\ part[7].img[1].mirrored
                  /\ part[8] = Lit("FFD9")
                  /\ part[9] = Lit("\r\n")

\* a stream has emitted two parts and dropped a frame
C10_Witness ==
    \E s \in Streams : Len(out[s]) = 18 /\ hist[s].dropAt # {}

(***************************************************************************)
(* C11: at no time does more than one VideoCapture object hold the camera, *)
(* whatever opens, failed reads and reopens happen.                        *)
(***************************************************************************)
C11_AtMostOneHandle == handles <= 1

(***************************************************************************)
(* C12: with the steps of two generators interleaved in any order, each    *)
(* generator has its own frame_count and last_detected_faces, 0 and empty  *)
(* when its loop starts; a step of one generator changes neither of        *)
(* another, so each counts its own frames, holds the result of its own     *)
(* latest analysis, and analyses its own first frame.                      *)
(***************************************************************************)
C12_OwnState ==
    \A s \in Streams :
        pc[s] \in InLoop =>
            /\ frame_count[s] =
                  (IF pc[s] \in {"analyze", "render"}
                   THEN hist[s].nread - 1 ELSE hist[s].nread)
            /\ Some(last_detected_faces[s]) =
                  (IF hist[s].attempt = None THEN Some(<<>>) ELSE hist[s].attempt)
            /\ (hist[s].nread = 0 =>
                  frame_count[s] = 0 /\ last_detected_faces[s] = <<>>)
            /\ (PastThrottle(s) >= 1 =>
                  hist[s].inferAt # <<>> /\ hist[s].inferAt[1] = 0)

C12_OwnStep ==
    \A s \in Streams : \A t \in Streams \ {s} :
        pc'[t] # pc[t] =>
            /\ frame_count'[s] = frame_count[s]
            /\ last_detected_faces'[s] = last_detected_faces[s]
            /\ pc'[s] = pc[s]

C12_StreamsIsolated == []C12_OwnState /\ [][C12_OwnStep]_vars

\* N = 2, two generators in their loops at once: one has counted a frame
\* and holds faces, the other has just analysed its own first frame and
\* holds none
C12_Witness ==
    \E s \in Streams : \E t \in Streams \ {s} :
        /\ FRAME_SKIP = 2
        /\ pc[s] \in InLoop
        /\ frame_count[s] = 1
        /\ last_detected_faces[s] # <<>>
        /\ pc[t] = "render"
        /\ hist[t].nread = 1
        /\ hist[t].inferAt = <<0>>
        /\ last_detected_faces[t] = <<>>

(***************************************************************************)
(* C13: an iteration whose read fails (the read, the call of               *)
(* initialize_camera, the sleep) leaves frame_count and                    *)
(* last_detected_faces as they were, runs no analysis and emits nothing;   *)
(* of the state shared by the streams only the handle may change.          *)
(***************************************************************************)
C13_FailedReadStep ==
    \A s \in Streams :
        hist'[s].gap =>
            /\ frame_count'[s] = frame_count[s]
            /\ last_detected_faces'[s] = last_detected_faces[s]
            /\ hist'[s].inferAt = hist[s].inferAt
            /\ hist'[s].attempt = hist[s].attempt
            /\ hist'[s].nread = hist[s].nread
            /\ out'[s] = out[s]
            /\ hist'[s].emitAt = hist[s].emitAt
            /\ buffer'[s] = buffer[s]
            /\ pc'[s] \in {"reinit", "sleep", "read", "raised"}
            /\ pc'[s] # pc[s] => nextFrame' = nextFrame /\ camera' = camera

C13_FailedReadKeepsState == [][C13_FailedReadStep]_vars

\* a failed iteration is over, in a stream that has counted two frames and
\* holds detected faces
C13_Witness ==
    \E s \in Streams :
        /\ hist[s].gap
        /\ pc[s] = "read"
        /\ hist[s].slept = REINIT_DELAY
        /\ frame_count[s] = 2
        /\ last_detected_faces[s] # <<>>

(***************************************************************************)
(* C14: a frame whose encoding fails counts as processed: frame_count has  *)
(* been advanced by one for it and the cache keeps what the iteration      *)
(* stored; so successive analyses are exactly FRAME_SKIP read frames       *)
(* apart, however few of those frames were emitted.                        *)
(***************************************************************************)
C14_CountState ==
    \A s \in Streams :
        /\ pc[s] \in InLoop =>
              frame_count[s] =
                  (IF pc[s] \in {"analyze", "render"}
                   THEN hist[s].nread - 1 ELSE hist[s].nread)
        /\ \A k \in 1..(Len(hist[s].inferAt) - 1) :
              hist[s].inferAt[k + 1] - hist[s].inferAt[k] = FRAME_SKIP

C14_DropStep ==
    \A s \in Streams :
        hist'[s].dropAt # hist[s].dropAt =>
            /\ frame_count'[s] = frame_count[s]
            /\ frame_count[s] = hist[s].nread
            /\ last_detected_faces'[s] = last_detected_faces[s]
            /\ Some(last_detected_faces'[s]) = hist[s].attempt

C14_DroppedFrameCounts == []C14_CountState /\ [][C14_DropStep]_vars

\* N = 2: frames 0 and 2 were analysed, and of the two frames in between
\* the analyses only one was emitted
C14_Witness ==
    \E s \in Streams :
        /\ FRAME_SKIP = 2
        /\ hist[s].inferAt = <<0, 2>>
        /\ hist[s].dropAt = {1}
        /\ hist[s].emitAt = <<0>>
        /\ last_detected_faces[s] # <<>>

(***************************************************************************)
(* C15: every iteration that reads and encodes a frame emits one part, the *)
(* iterations whose read or encoding fails emit none, and the parts come   *)
(* in the order of the reads: no frame is emitted twice or kept for a      *)
(* later iteration.                                                        *)
(***************************************************************************)
C15_EmitState ==
    \A s \in Streams :
        LET n == Len(hist[s].emitAt)
            \* the image of the k-th part: the seventh of its nine tokens
            image(k) == out[s][9 * k - 2].img
            over == IF IterationOver(s) THEN hist[s].nread ELSE hist[s].nread - 1
        IN  /\ Len(out[s]) = 9 * n
            /\ \A k \in 1..n : image(k) # None
            /\ \A k \in 1..(n - 1) :
                  /\ hist[s].emitAt[k] < hist[s].emitAt[k + 1]
                  /\ image(k)[1].id < image(k + 1)[1].id
            /\ hist[s].dropAt \cap Range(hist[s].emitAt) = {}
            /\ hist[s].dropAt \cup Range(hist[s].emitAt) = 0..(over - 1)
            /\ pc[s] = "suspended" => image(n)[1] = frame[s][1]

C15_EmitStep ==
    \A s \in Streams :
        /\ out'[s] # out[s] =>
              /\ Len(out'[s]) = Len(out[s]) + 9
              /\ SubSeq(out'[s], 1, Len(out[s])) = out[s]
              /\ pc[s] = "yield"
              /\ hist'[s].nread = hist[s].nread
        /\ hist[s].gap => out'[s] = out[s]

C15_OnePartPerFrame == []C15_EmitState /\ [][C15_EmitStep]_vars

\* frames 0 and 2 were emitted, frame 1 was dropped by the encoder
C15_Witness ==
    \E s \in Streams :
        /\ hist[s].emitAt = <<0, 2>>
        /\ hist[s].dropAt = {1}
        /\ pc[s] = "suspended"

(***************************************************************************)
(* C16: a generator that starts without a handle calls initialize_camera   *)
(* once before any read; when the call fails the generator returns, having *)
(* read and emitted nothing; when it succeeds the loop starts with         *)
(* frame_count 0 and an empty cache.                                       *)
(***************************************************************************)
C16_EntryState ==
    \A s \in Streams :
        /\ hist[s].opens <= 1
        /\ pc[s] = "opened" => hist[s].opens = 1
        /\ pc[s] \in {"begin", "open"} =>
              hist[s].opens = 0 /\ hist[s].nread = 0 /\ ~hist[s].gap
        /\ pc[s] = "returned" =>
              /\ hist[s].opens = 1
              /\ hist[s].nread = 0
              /\ ~hist[s].gap
              /\ out[s] = <<>>

C16_EntryStep ==
    \A s \in Streams :
        /\ (pc[s] = "begin" /\ cap = "None") => pc'[s] \in {"begin", "open"}
        /\ (pc[s] = "open" /\ pc'[s] # "open") =>
              pc'[s] = "opened" /\ hist'[s].opens = 1
        /\ (pc[s] = "opened" /\ cap = "None") => pc'[s] \in {"opened", "returned"}
        /\ (pc[s] = "opened" /\ pc'[s] = "read") =>
              /\ cap = "open"
              /\ frame_count'[s] = 0
              /\ last_detected_faces'[s] = <<>>
        /\ pc'[s] = "returned" => pc[s] \in {"opened", "returned"}

C16_OneOpenAtEntry == []C16_EntryState /\ [][C16_EntryStep]_vars

\* a generator found no handle, its call of initialize_camera failed and it
\* has returned
C16_Witness ==
    \E s \in Streams : pc[s] = "returned" /\ hist[s].opens = 1 /\ cap = "None"

====
